---- MODULE Spec2Model ----
(***************************************************************************)
(* The elevation-to-slope pipeline of the repository, in its two variants: *)
(*   raster_slope1.py  main()          (command-line entry, try/except)    *)
(*   raster_slope.py   main(gpkg_file) (argparse entry, no except)         *)
(* A run is one invocation of one of the two scripts.  The runs share the  *)
(* file system; every other variable is local to a run.                    *)
(***************************************************************************)
EXTENDS Integers, Sequences, FiniteSets, TLC

\* ------------------------------------------------------------------ bounds
NumRuns        == 2   \* run slots
MaxInvocations == 2   \* script invocations in one behaviour
MaxTime        == 2   \* wall-clock seconds a run can read: 1..MaxTime
MaxCoord       == 1   \* feature coordinates: 0..MaxCoord
MaxFeatures    == 2   \* features in the input dataset

MaxSide        == 4   \* rows and columns of a ramp grid: 1..MaxSide
MaxBase        == 1   \* elevation of a ramp's first cell: 0..MaxBase
MaxDelta       == 23  \* elevation step of a ramp: -MaxDelta..MaxDelta
MaxCells       == 6   \* cells of a free-form grid
MaxLen         == 6   \* characters of a county id value
MaxCount       == 4   \* the count a parcel server reports: 0..MaxCount
MaxPageSize    == 2   \* results on one page of an answer: 0..MaxPageSize
MaxRows        == 4   \* rows of the frame handed to the CRM import: 0..MaxRows
MaxCode        == 2   \* return codes of a launched script: 0..MaxCode

Runs == 1..NumRuns

\* --------------------------------------------------------------- constants
NoExit  == -1         \* the process has not exited yet
NaN     == -1         \* numpy nan: every ordered comparison with it is false
NoInput == [base |-> "", suffix |-> "", ts |-> 0, ext |-> ""]   \* the picker's ""

Scripts  == {"raster_slope1", "raster_slope"}
Statuses == {200, 204, 404}          \* HTTP status of the elevation service

\* -------------------------------------------------------------- file names
\* A file name is kept in the pieces the scripts assemble it from.
Path(base, suffix, ts, ext) ==
    [base |-> base, suffix |-> suffix, ts |-> ts, ext |-> ext]

ExistingInput == Path("parcels", "", 0, ".gpkg")
MissingInput  == Path("missing", "", 0, ".gpkg")
InputFiles    == {ExistingInput, MissingInput}

\* str.replace(old, new) on a name whose only occurrence of old is its extension
Replace(p, old, newSuffix, newExt) ==
    IF p.ext = old
    THEN [p EXCEPT !.suffix = p.suffix \o newSuffix, !.ext = newExt]
    ELSE p

VARIABLES
    fs,           \* the file system: existing path -> invocation that wrote it last
    invocations,  \* number of script invocations so far
    pc,           \* position of each run
    script,       \* which script the run executes
    inv,          \* invocation number of the run
    input_file,   \* the run's input path
    timestamp,    \* raster_slope1: the timestamp read at line 45
    gdf,          \* what is known of the dataset read from the input file
    extent,       \* gdf.total_bounds
    status_code,  \* response.status_code, 0 before any response
    requests,     \* number of requests.get calls of the run
    started,      \* stages the run has started, in order
    completed,    \* stages that returned normally having done their work
    failed,       \* the stage that raised, "none" otherwise
    written,      \* paths the run has created or overwritten
    removed,      \* paths the run has removed
    temp_files,   \* raster_slope1: the list built at line 89
    exit_code     \* exit status of the process

vars == << fs, invocations, pc, script, inv, input_file, timestamp, gdf, extent,
           status_code, requests, started, completed, failed, written, removed,
           temp_files, exit_code >>

\* The raster stages on the grids the files hold (calculate_slope and
\* raster_to_shapefile of raster_slope.py, applied to one raster).
VARIABLES
    rpc,          \* "off", "slope", "vectorize", "done" or "failed"
    dem,          \* the grid read at calculate_slope line 58
    slope,        \* the grid written at line 72, read at raster_to_shapefile line 83
    features      \* the features added to the layer at lines 101-106

rasterVars == << rpc, dem, slope, features >>

\* The window of tx_prox_analysis.py (TransmissionLineAnalysis): the Tk event
\* loop runs one handler at a time, the worker threads run beside it.
VARIABLES
    tx_input_file,     \* self.input_file: "" or a path
    start_button,      \* "normal" or "disabled" (file_button has the same state)
    cancel_button,     \* "normal" or "disabled"
    cancel_requested,  \* self.cancel_requested
    after_start,       \* root.after(100, self.start_processing) is pending
    script_thread,     \* the thread start_processing created last, 0 for None
    wpc,               \* where each worker thread stands in process_transmission_lines
    result,            \* what each worker returned: "none" for (None, None)
    cancelled,         \* cancel_processing was called while the worker was running
    wrote,             \* the files each worker has written
    callbacks,         \* the root.after(0, ...) calls not yet served
    quit               \* root.quit() was called

txVars == << tx_input_file, start_button, cancel_button, cancel_requested, after_start,
             script_thread, wpc, result, cancelled, wrote, callbacks, quit >>

\* One call of format_county_id of import_to_crm.py.
VARIABLES
    cpc,          \* "off", "call" or "returned"
    value,        \* str(value), a sequence of characters
    county_id     \* what the call returned

countyVars == << cpc, value, county_id >>

\* One query of parcel_search.py (ReportAllParcelSearch.run_action and
\* run_new_query): the paging loop and the display of what it gathered.
VARIABLES
    qpc,          \* "off", "idle", "loop", "after_loop" or "done"
    count,        \* data['count'], the same in every answer
    page,         \* params['page']
    all_results,  \* len(all_results)
    requested,    \* the pages requested, in order
    last,         \* the last answer: "none", "results", "empty", "missing" or "error"
    shown         \* "nothing", "warning", "results", "no_results" or "error"

searchVars == << qpc, count, page, all_results, requested, last, shown >>

\* One call of import_to_crm.py's CSVProcessor.import_to_monday.
VARIABLES
    mpc,                 \* "off", "verify", "group", "loop" or "done"
    df,                  \* len(df), the rows read by process_csv line 288
    columns,             \* which of county_name and state_abbr the frame has
    group_title,         \* the county and state create_group names the group by
    group_id,            \* what create_group returned: "unset", "None", "" or an id
    successful_imports,  \* line 197
    failed_imports,      \* line 198
    total_rows,          \* line 199
    idx,                 \* rows the loop of line 212 has taken
    ended                \* "no", "no_board", "no_group", "raised" or "completed"

importVars == << mpc, df, columns, group_title, group_id, successful_imports,
                 failed_imports, total_rows, idx, ended >>


\* The launcher of main.py (ProcessLauncher) from its window to its exit.
VARIABLES
    lpc,           \* "off", "idle", "check", "run", "child", "returned", "message" or "exited"
    scripts,       \* the script files that exist beside main.py
    process_name,  \* the argument of launch_process, "" before the click
    hidden,        \* whether the launcher's window is hidden (line 81)
    launches,      \* subprocesses started by line 84
    returncode,    \* result.returncode, -1 while result is unbound
    caught,        \* whether the handler of line 101 was entered
    message,       \* the message box shown: "none", "not_found", "error" or "unexpected"
    exit_status    \* the argument of os._exit, -1 while the application runs

launchVars == << lpc, scripts, process_name, hidden, launches, returncode, caught,
                 message, exit_status >>


\* the variables the actions of each part leave alone
outside       == << rasterVars, txVars, countyVars, searchVars, importVars, launchVars >>
rasterOutside == << vars, txVars, countyVars, searchVars, importVars, launchVars >>
txOutside     == << vars, rasterVars, countyVars, searchVars, importVars, launchVars >>
countyOutside == << vars, rasterVars, txVars, searchVars, importVars, launchVars >>
searchOutside == << vars, rasterVars, txVars, countyVars, importVars, launchVars >>
importOutside == << vars, rasterVars, txVars, countyVars, searchVars, launchVars >>
launchOutside == << vars, rasterVars, txVars, countyVars, searchVars, importVars >>

Exists(p) == p \in DOMAIN fs

\* a write that leaves a file that is already there as it is
WriteFileIfAbsent(f, p, i) ==
    [q \in (DOMAIN f) \cup {p} |-> IF q = p /\ q \notin DOMAIN f THEN i ELSE f[q]]
\* open(p, 'w') / os.remove(p) on the file system, by invocation i
WriteFile(f, p, i) == [q \in (DOMAIN f) \cup {p} |-> IF q = p THEN i ELSE f[q]]
RemoveFile(f, p)   == [q \in (DOMAIN f) \ {p} |-> f[q]]

\* ------------------------------------------------------------ the dataset
\* A feature is its bounding box <<minx, miny, maxx, maxy>>; a point or a line
\* parallel to an axis is degenerate.  A dataset is the sequence of its rows.
Coords   == 0..MaxCoord
Features == { b \in Coords \X Coords \X Coords \X Coords : b[1] <= b[3] /\ b[2] <= b[4] }
Datasets == UNION { [1..n -> Features] : n \in 0..MaxFeatures }

NonDegenerate(b) == b[1] < b[3] /\ b[2] < b[4]

Min(S) == CHOOSE x \in S : \A y \in S : x <= y
Max(S) == CHOOSE x \in S : \A y \in S : x >= y

\* GeoDataFrame.total_bounds: [minx, miny, maxx, maxy] over all rows, and an array
\* of nan for a dataset without rows (it does not raise).
total_bounds(d) ==
    IF Len(d) = 0
    THEN << NaN, NaN, NaN, NaN >>
    ELSE << Min({ d[i][1] : i \in 1..Len(d) }), Min({ d[i][2] : i \in 1..Len(d) }),
            Max({ d[i][3] : i \in 1..Len(d) }), Max({ d[i][4] : i \in 1..Len(d) }) >>

NoExtent == << >>

\* What the run keeps of a dataset d: whether it has rows and whether one of them
\* has positive width and height; NoData before the file is read.
Describe(d) == [empty |-> Len(d) = 0,
                nondegenerate |-> \E i \in 1..Len(d) : NonDegenerate(d[i])]
NoData == [empty |-> TRUE, nondegenerate |-> TRUE]

\* gdf and gdf.total_bounds for every dataset the input file can hold
ReadResults == { [data |-> Describe(d), total_bounds |-> total_bounds(d)] : d \in Datasets }

\* a < b on floats
Less(a, b) == a # NaN /\ b # NaN /\ a < b

\* ------------------------------------------------- the paths of one run
\* raster_slope1.py lines 43-52
temp_dem(r)         == Path(input_file[r].base, "_dem_", timestamp[r], ".tif")
reprojected_dem(r)  == Path(input_file[r].base, "_reproj_", timestamp[r], ".tif")
resampled_dem(r)    == Path(input_file[r].base, "_resampled_", timestamp[r], ".tif")
slope_raster(r)     == Path(input_file[r].base, "_slope_", timestamp[r], ".tif")
output_shapefile(r) == Path(input_file[r].base, "_slope", 0, ".shp")

\* raster_slope.py lines 142, 146, 150
dem_output_file(r)   == Replace(input_file[r], ".gpkg", "_dem", ".tif")
slope_output_file(r) == Replace(dem_output_file(r), ".tif", "_slope_raster", ".tif")
shapefile_output(r)  == Replace(slope_output_file(r), ".tif", "", ".shp")

\* what each stage reads and writes, per script
DemPath(r)    == IF script[r] = "raster_slope1" THEN temp_dem(r) ELSE dem_output_file(r)
SlopeSrc(r)   == IF script[r] = "raster_slope1" THEN resampled_dem(r) ELSE dem_output_file(r)
SlopePath(r)  == IF script[r] = "raster_slope1" THEN slope_raster(r) ELSE slope_output_file(r)
OutputPath(r) == IF script[r] = "raster_slope1" THEN output_shapefile(r) ELSE shapefile_output(r)

\* line 89 with the final output listed among the temporary files
TempFilesWithOutput(r) ==
    << temp_dem(r), reprojected_dem(r), resampled_dem(r), slope_raster(r),
       output_shapefile(r) >>

\* raster_slope1.py line 89
TempFiles(r) == << temp_dem(r), reprojected_dem(r), resampled_dem(r), slope_raster(r) >>

\* the stages each script calls, in the order of its main
Stages(s) ==
    IF s = "raster_slope1"
    THEN << "extent", "fetch", "reproject", "resample", "slope", "vectorize" >>
    ELSE << "extent", "fetch", "slope", "vectorize" >>

Range(q) == { q[i] : i \in 1..Len(q) }

\* Response.raise_for_status raises for 4xx and 5xx only
RaisesForStatus(s) == 400 <= s /\ s < 600

\* ------------------------------------------------------------------ grids
\* A grid: its size, the dtype and the nodata value of its profile, its band
\* (row, column -> value), and how a band value is to be read: "plain", or
\* "sqrt" when the band holds v for the float sqrt(v) (NaN for a negative v).
NoNodata == -99999     \* src.nodata is None
NoGrid   == [h |-> 0, w |-> 0, dtype |-> "", nodata |-> NoNodata, unit |-> "plain",
             band |-> << >>]
Cells(g) == (1..g.h) \X (1..g.w)

RasterOff ==
    /\ rpc = "off"
    /\ dem = NoGrid
    /\ slope = NoGrid
    /\ features = << >>

\* ----------------------------------------------------- the analysis window
MaxThreads == 3        \* threads start_processing creates in one session
Threads == 1..MaxThreads

TxOff ==
    /\ tx_input_file = ""
    /\ start_button = "disabled"
    /\ cancel_button = "disabled"
    /\ cancel_requested = FALSE
    /\ after_start = FALSE
    /\ script_thread = 0
    /\ wpc = [t \in Threads |-> "none"]
    /\ result = [t \in Threads |-> "pending"]
    /\ cancelled = [t \in Threads |-> FALSE]
    /\ wrote = [t \in Threads |-> {}]
    /\ callbacks = << >>
    /\ quit = TRUE

\* ------------------------------------------------------------ county ids
CountyOff ==
    /\ cpc = "off"
    /\ value = << >>
    /\ county_id = << >>

\* -------------------------------------------------------------------- Init
PipelineOff ==
    /\ fs = [p \in {ExistingInput} |-> 0]
    /\ invocations = 0
    /\ pc = [r \in Runs |-> "idle"]
    /\ script = [r \in Runs |-> "raster_slope1"]
    /\ inv = [r \in Runs |-> 0]
    /\ input_file = [r \in Runs |-> NoInput]
    /\ timestamp = [r \in Runs |-> 0]
    /\ gdf = [r \in Runs |-> NoData]
    /\ extent = [r \in Runs |-> NoExtent]
    /\ status_code = [r \in Runs |-> 0]
    /\ requests = [r \in Runs |-> 0]
    /\ started = [r \in Runs |-> << >>]
    /\ completed = [r \in Runs |-> {}]
    /\ failed = [r \in Runs |-> "none"]
    /\ written = [r \in Runs |-> {}]
    /\ removed = [r \in Runs |-> {}]
    /\ temp_files = [r \in Runs |-> << >>]
    /\ exit_code = [r \in Runs |-> NoExit]

\* ------------------------------------------------------- the parcel search
SearchOff ==
    /\ qpc = "off"
    /\ count = 0
    /\ page = 0
    /\ all_results = 0
    /\ requested = << >>
    /\ last = "none"
    /\ shown = "nothing"

\* --------------------------------------------------------- the CRM import
ImportOff ==
    /\ mpc = "off"
    /\ df = 0
    /\ columns = {}
    /\ group_title = << >>
    /\ group_id = "unset"
    /\ successful_imports = 0
    /\ failed_imports = 0
    /\ total_rows = 0
    /\ idx = 0
    /\ ended = "no"


\* ------------------------------------------------------------ the launcher
LaunchOff ==
    /\ lpc = "off"
    /\ scripts = {}
    /\ process_name = ""
    /\ hidden = FALSE
    /\ launches = 0
    /\ returncode = -1
    /\ caught = FALSE
    /\ message = "none"
    /\ exit_status = -1


Off == RasterOff /\ TxOff /\ CountyOff /\ SearchOff /\ ImportOff /\ LaunchOff

Init ==
    /\ PipelineOff
    /\ Off

\* The user starts one of the two scripts in run slot r.
Invoke(r) ==
    /\ UNCHANGED outside
    /\ pc[r] \in {"idle", "done"}
    /\ invocations < MaxInvocations
    /\ invocations' = invocations + 1
    /\ \E s \in Scripts : script' = [script EXCEPT ![r] = s]
    /\ inv' = [inv EXCEPT ![r] = invocations + 1]
    /\ pc' = [pc EXCEPT ![r] = "input"]
    /\ input_file' = [input_file EXCEPT ![r] = NoInput]
    /\ timestamp' = [timestamp EXCEPT ![r] = 0]
    /\ gdf' = [gdf EXCEPT ![r] = NoData]
    /\ extent' = [extent EXCEPT ![r] = NoExtent]
    /\ status_code' = [status_code EXCEPT ![r] = 0]
    /\ requests' = [requests EXCEPT ![r] = 0]
    /\ started' = [started EXCEPT ![r] = << >>]
    /\ completed' = [completed EXCEPT ![r] = {}]
    /\ failed' = [failed EXCEPT ![r] = "none"]
    /\ written' = [written EXCEPT ![r] = {}]
    /\ removed' = [removed EXCEPT ![r] = {}]
    /\ temp_files' = [temp_files EXCEPT ![r] = << >>]
    /\ exit_code' = [exit_code EXCEPT ![r] = NoExit]
    /\ UNCHANGED fs

\* the process ends with status c
Exit(r, c) ==
    /\ pc' = [pc EXCEPT ![r] = "done"]
    /\ exit_code' = [exit_code EXCEPT ![r] = c]

\* stage raised: raster_slope1.py catches it at lines 98-101 and returns 1;
\* raster_slope.py lets it end the interpreter, whose status is then 1
Raise(r, stage) ==
    /\ failed' = [failed EXCEPT ![r] = stage]
    /\ Exit(r, 1)

\* ----------------------------------------------------------------- actions
\* raster_slope1.py lines 24-35: argv[1], or the picker, whose "" returns 1.
\* raster_slope.py lines 163-166 and get_input_file: -f, or the picker, whose
\* "" calls exit(), which ends the process with status 0.
GetInput(r) ==
    /\ UNCHANGED outside
    /\ pc[r] = "input"
    /\ \E f \in InputFiles \cup {NoInput} :
         IF f = NoInput
         THEN /\ Exit(r, IF script[r] = "raster_slope1" THEN 1 ELSE 0)
              /\ UNCHANGED input_file
         ELSE /\ input_file' = [input_file EXCEPT ![r] = f]
              /\ pc' = [pc EXCEPT ![r] =
                          IF script[r] = "raster_slope1" THEN "validate" ELSE "apikey"]
              /\ UNCHANGED exit_code
    /\ UNCHANGED << fs, invocations, script, inv, timestamp, gdf, extent, status_code, requests, started, completed, failed,
                    written, removed, temp_files >>

\* raster_slope1.py lines 38-52: the existence check, then the timestamp
ValidateInput(r) ==
    /\ UNCHANGED outside
    /\ pc[r] = "validate"
    /\ IF ~Exists(input_file[r])
       THEN /\ Exit(r, 1)
            /\ UNCHANGED timestamp
       ELSE /\ \E t \in 1..MaxTime : timestamp' = [timestamp EXCEPT ![r] = t]
            /\ pc' = [pc EXCEPT ![r] = "extent"]
            /\ UNCHANGED exit_code
    /\ UNCHANGED << fs, invocations, script, inv, input_file, gdf, extent, status_code, requests, started, completed, failed,
                    written, removed, temp_files >>

\* raster_slope.py prompt_for_api_key: an empty key calls exit(), status 0
PromptForApiKey(r) ==
    /\ UNCHANGED outside
    /\ pc[r] = "apikey"
    /\ \E key \in {"", "key"} :
         IF key = ""
         THEN Exit(r, 0)
         ELSE /\ pc' = [pc EXCEPT ![r] = "extent"]
              /\ UNCHANGED exit_code
    /\ UNCHANGED << fs, invocations, script, inv, input_file, timestamp, gdf, extent, status_code, requests, started, completed,
                    failed, written, removed, temp_files >>

\* gpd.read_file raises on a path that does not exist, and may raise on one that does
ReadOutcomes(p) == IF Exists(p) THEN {"read", "raise"} ELSE {"raise"}

\* raster_slope1.py lines 57-58, raster_slope.py get_map_extent
GetMapExtent(r) ==
    /\ UNCHANGED outside
    /\ pc[r] = "extent"
    /\ started' = [started EXCEPT ![r] = Append(@, "extent")]
    /\ \E o \in ReadOutcomes(input_file[r]) :
         IF o = "raise"
         THEN /\ Raise(r, "extent")
              /\ UNCHANGED << gdf, extent, completed >>
         ELSE /\ \E g \in ReadResults :
                   /\ gdf' = [gdf EXCEPT ![r] = g.data]
                   /\ extent' = [extent EXCEPT ![r] = g.total_bounds]
              /\ completed' = [completed EXCEPT ![r] = @ \cup {"extent"}]
              /\ pc' = [pc EXCEPT ![r] = "fetch"]
              /\ UNCHANGED << failed, exit_code >>
    /\ UNCHANGED << fs, invocations, script, inv, input_file, timestamp, status_code,
                    requests, written, removed, temp_files >>

\* what a stage that writes file dst can do: finish, raise before it has created
\* dst, or raise after (dst is then left on disk as far as it got)
WriteOutcomes == {"ok", "raise_before_write", "raise_after_write"}

\* requests.get answers with a status, or raises (no connection)
Responses == Statuses \cup {0}

\* raster_slope1.py lines 60-80, raster_slope.py download_dem
DownloadDem(r) ==
    /\ UNCHANGED outside
    /\ pc[r] = "fetch"
    /\ started' = [started EXCEPT ![r] = Append(@, "fetch")]
    /\ requests' = [requests EXCEPT ![r] = @ + 1]
    /\ \E s \in Responses, o \in {"ok", "raise_after_write"} :
         /\ status_code' = [status_code EXCEPT ![r] = s]
         /\ IF s = 0
            THEN /\ o = "ok"
                 /\ Raise(r, "fetch")
                 /\ UNCHANGED << fs, written, completed >>
            ELSE IF s = 200
            THEN /\ fs' = WriteFile(fs, DemPath(r), inv[r])
                 /\ written' = [written EXCEPT ![r] = @ \cup {DemPath(r)}]
                 /\ IF o = "ok"
                    THEN /\ completed' = [completed EXCEPT ![r] = @ \cup {"fetch"}]
                         /\ pc' = [pc EXCEPT ![r] =
                               IF script[r] = "raster_slope1" THEN "reproject" ELSE "slope"]
                         /\ UNCHANGED << failed, exit_code >>
                    ELSE /\ Raise(r, "fetch")
                         /\ UNCHANGED completed
            ELSE /\ o = "ok"
                 /\ UNCHANGED << fs, written, completed >>
                 /\ IF script[r] = "raster_slope1" \/ RaisesForStatus(s)
                    THEN Raise(r, "fetch")
                    ELSE /\ pc' = [pc EXCEPT ![r] = "slope"]
                         /\ UNCHANGED << failed, exit_code >>
    /\ UNCHANGED << invocations, script, inv, input_file, timestamp, gdf, extent, removed, temp_files >>

\* A stage that opens src, computes, and writes dst
Stage(r, name, src, dst, next) ==
    /\ UNCHANGED outside
    /\ started' = [started EXCEPT ![r] = Append(@, name)]
    /\ \E o \in (IF Exists(src) THEN WriteOutcomes ELSE {"raise_before_write"}) :
         /\ IF o = "raise_before_write"
            THEN UNCHANGED << fs, written >>
            ELSE /\ fs' = WriteFile(fs, dst, inv[r])
                 /\ written' = [written EXCEPT ![r] = @ \cup {dst}]
         /\ IF o = "ok"
            THEN /\ completed' = [completed EXCEPT ![r] = @ \cup {name}]
                 /\ IF next = "done"
                    THEN Exit(r, 0)
                    ELSE /\ pc' = [pc EXCEPT ![r] = next]
                         /\ UNCHANGED exit_code
                 /\ UNCHANGED failed
            ELSE /\ Raise(r, name)
                 /\ UNCHANGED completed
    /\ UNCHANGED << invocations, script, inv, input_file, timestamp, gdf, extent, status_code, requests, removed, temp_files >>

\* raster_slope1.py line 83
ReprojectRaster(r) ==
    /\ pc[r] = "reproject"
    /\ Stage(r, "reproject", temp_dem(r), reprojected_dem(r), "resample")

\* raster_slope1.py line 84
ResampleDem(r) ==
    /\ pc[r] = "resample"
    /\ Stage(r, "resample", reprojected_dem(r), resampled_dem(r), "slope")

\* raster_slope.py calculate_slope
CalculateSlope(r) ==
    /\ pc[r] = "slope"
    /\ Stage(r, "slope", SlopeSrc(r), SlopePath(r), "vectorize")

\* raster_slope.py raster_to_shapefile lines 79-95: the raster is opened and
\* read, then CreateDataSource looks for the output path: it gives None for a
\* path that exists, and line 96 then raises before anything is written.
\* Nothing is on disk yet when it gives a data source.
RasterToShapefile(r) ==
    /\ UNCHANGED outside
    /\ pc[r] = "vectorize"
    /\ started' = [started EXCEPT ![r] = Append(@, "vectorize")]
    /\ \E o \in (IF Exists(SlopePath(r)) /\ ~Exists(OutputPath(r))
                 THEN {"ok", "raise_before_write"} ELSE {"raise_before_write"}) :
         IF o = "ok"
         THEN /\ pc' = [pc EXCEPT ![r] = "create_layer"]
              /\ UNCHANGED << failed, exit_code >>
         ELSE Raise(r, "vectorize")
    /\ UNCHANGED << fs, invocations, script, inv, input_file, timestamp, gdf, extent, status_code,
                    requests, completed, written, removed, temp_files >>

\* raster_to_shapefile lines 96-109: CreateLayer creates the .shp file, whatever
\* is at its path by now, and the loop fills it
CreateLayer(r) ==
    /\ UNCHANGED outside
    /\ pc[r] = "create_layer"
    /\ fs' = WriteFile(fs, OutputPath(r), inv[r])
    /\ written' = [written EXCEPT ![r] = @ \cup {OutputPath(r)}]
    /\ \E o \in {"ok", "raise_after_write"} :
         IF o = "ok"
         THEN /\ completed' = [completed EXCEPT ![r] = @ \cup {"vectorize"}]
              /\ IF script[r] = "raster_slope1"
                 THEN /\ pc' = [pc EXCEPT ![r] = "cleanup"]
                      /\ UNCHANGED exit_code
                 ELSE Exit(r, 0)
              /\ UNCHANGED failed
         ELSE /\ Raise(r, "vectorize")
              /\ UNCHANGED completed
    /\ UNCHANGED << invocations, script, inv, input_file, timestamp, gdf, extent, status_code,
                    requests, started, removed, temp_files >>

\* raster_slope1.py lines 88-96: the loop removes the temporary files that exist;
\* k is the index at which os.remove raises, Len+1 when none does.
CleanUp(r) ==
    /\ UNCHANGED outside
    /\ pc[r] = "cleanup"
    /\ temp_files' = [temp_files EXCEPT ![r] = TempFiles(r)]
    /\ \E k \in 1..(Len(TempFiles(r)) + 1) :
         /\ k <= Len(TempFiles(r)) => Exists(TempFiles(r)[k])
         /\ LET gone == { TempFiles(r)[i] : i \in 1..(k - 1) } \cap DOMAIN fs
            IN  /\ fs' = [q \in (DOMAIN fs) \ gone |-> fs[q]]
                /\ removed' = [removed EXCEPT ![r] = @ \cup gone]
         /\ IF k = Len(TempFiles(r)) + 1
            THEN /\ Exit(r, 0)
                 /\ UNCHANGED failed
            ELSE Raise(r, "cleanup")
    /\ UNCHANGED << invocations, script, inv, input_file, timestamp, gdf, extent, status_code, requests, started, completed,
                    written >>

\* One invocation at a time, as from one terminal: slot 1 is invoked, runs to its
\* end, and can then be invoked again on the file system the earlier runs left.
Next ==
    \E r \in {1} :
        \/ Invoke(r)
        \/ GetInput(r)
        \/ ValidateInput(r)
        \/ PromptForApiKey(r)
        \/ GetMapExtent(r)
        \/ DownloadDem(r)
        \/ ReprojectRaster(r)
        \/ ResampleDem(r)
        \/ CalculateSlope(r)
        \/ RasterToShapefile(r)
        \/ CreateLayer(r)
        \/ CleanUp(r)

Spec == Init /\ [][Next]_vars

\* ------------------------------------------------------ two runs side by side
\* Two processes, started from two terminals on the same existing input, their
\* steps interleaved.  The runs followed are those that get as far as the
\* shapefile: the input exists and holds one parcel, the service answers 200,
\* and no stage before raster_to_shapefile raises.
Pair == {1, 2}

OneParcel == [empty |-> FALSE, nondegenerate |-> TRUE]

Narrow ==
    \A r \in Pair :
        /\ pc[r] \notin {"idle", "input"} => input_file[r] = ExistingInput
        /\ gdf[r] \in {NoData, OneParcel}
        /\ extent[r] \in {NoExtent, << 0, 0, 1, 1 >>}
        /\ status_code[r] \in {0, 200}
        /\ failed[r] \in {"none", "vectorize"}
        /\ pc[r] = "done" => "slope" \in completed[r]

NextConcurrent ==
    \E r \in Pair :
        \/ Invoke(r) /\ Narrow'
        \/ GetInput(r) /\ Narrow'
        \/ ValidateInput(r) /\ Narrow'
        \/ PromptForApiKey(r) /\ Narrow'
        \/ GetMapExtent(r) /\ Narrow'
        \/ DownloadDem(r) /\ Narrow'
        \/ ReprojectRaster(r) /\ Narrow'
        \/ ResampleDem(r) /\ Narrow'
        \/ CalculateSlope(r) /\ Narrow'
        \/ RasterToShapefile(r) /\ Narrow'
        \/ CreateLayer(r) /\ Narrow'
        \/ CleanUp(r) /\ Narrow'

SpecConcurrent == Init /\ [][NextConcurrent]_vars

\* ------------------------------------------------------------------ claims
AllStages == << "extent", "fetch", "reproject", "resample", "slope", "vectorize" >>
Pos(s)    == CHOOSE i \in 1..Len(AllStages) : AllStages[i] = s

\* the retained artifact of a run: its final vector output
Retained(r) == { OutputPath(r) }

\* every stage of the run's script returned normally with its work done
AllStagesCompleted(r) == completed[r] = Range(Stages(script[r]))

\* the service answered, and not with 200
Non200(r) == status_code[r] \notin {0, 200}

\* the first stage of the run that failed, "none" when none did
FirstFailure(r) == IF Non200(r) THEN "fetch" ELSE failed[r]

\* C1: a run that aborted with a failure at a stage has, at its end, none of the
\* intermediate files it created left on disk, and its retained files still there.
C1_FailedRunLeavesNoIntermediate ==
    \A r \in Runs :
        (pc[r] = "done" /\ FirstFailure(r) \in Range(AllStages)) =>
            /\ \A p \in written[r] \ Retained(r) : ~Exists(p)
            /\ \A p \in written[r] \cap Retained(r) : Exists(p)

\* C2: a status other than 200 fails the fetch, leaves the DEM path unwritten and
\* lets no later stage start; the DEM file is written under status 200 only.
C2_Non200FailsFetch ==
    \A r \in Runs :
        /\ Non200(r) =>
              /\ failed[r] = "fetch"
              /\ DemPath(r) \notin written[r]
              /\ Range(started[r]) \cap {"reproject", "resample", "slope", "vectorize"} = {}
        /\ DemPath(r) \in written[r] => status_code[r] = 200

\* C3: the process ends with status 0 exactly when every stage completed, and
\* with status 1 in every other case.
C3_ExitCode ==
    \A r \in Runs :
        pc[r] = "done" =>
            /\ exit_code[r] \in {0, 1}
            /\ exit_code[r] = 0 <=> AllStagesCompleted(r)

\* C4: the cleanup never removes the final vector output: it is no member of the
\* files the run removed, and once the vectorizer has written it, it is on disk
\* at the end of the run, whether the run ended well or not.
C4_CleanupKeepsOutput ==
    \A r \in Runs :
        /\ OutputPath(r) \notin removed[r]
        /\ (pc[r] = "done" /\ "vectorize" \in completed[r]) => Exists(OutputPath(r))

\* a run whose cleanup removed files and whose output is on disk at its end
C4_Witness ==
    \E r \in Runs :
        /\ pc[r] = "done"
        /\ "vectorize" \in completed[r]
        /\ Cardinality(removed[r]) = 4
        /\ Exists(OutputPath(r))

\* C5: at the end of a successful run the files it created, the output apart, are
\* gone and the output exists; and at the end of any run, aborted or not, the
\* files removed are the same: every file the run created but the output.
C5_SuccessCleansUp ==
    \A r \in Runs :
        pc[r] = "done" =>
            /\ AllStagesCompleted(r) =>
                  /\ \A p \in written[r] \ Retained(r) : ~Exists(p)
                  /\ Exists(OutputPath(r))
            /\ removed[r] = written[r] \ Retained(r)

\* C6: once a stage has failed, the run is at its failure outcome, no stage after
\* the failed one has started, and stages before the vectorizer leave no output.
C6_AllOrNothing ==
    \A r \in Runs :
        FirstFailure(r) \in Range(AllStages) =>
            /\ pc[r] = "done" /\ exit_code[r] = 1
            /\ \A s \in Range(started[r]) : Pos(s) <= Pos(FirstFailure(r))
            /\ FirstFailure(r) # "vectorize" => OutputPath(r) \notin written[r]

\* C7: a run sends at most one request; a failed fetch ends the run; a run whose
\* input file does not exist sends none.
C7_SingleRequest ==
    \A r \in Runs :
        /\ requests[r] <= 1
        /\ (Non200(r) \/ failed[r] = "fetch") => (pc[r] = "done" /\ exit_code[r] = 1)
        /\ (pc[r] # "idle" /\ ~Exists(input_file[r])) => requests[r] = 0

\* C8: every intermediate file a stage has written is, from then on, in the list
\* of files the cleanup goes through.
C8_WrittenFilesRegistered ==
    \A r \in Runs : written[r] \ Retained(r) \subseteq Range(temp_files[r])

\* C9: the stages start in the order extent, fetch, reproject, resample, slope,
\* vectorize, each after the one before it completed, and the slope stage only
\* after the reprojection completed.
C9_StageOrder ==
    \A r \in Runs :
        /\ \A i \in 2..Len(started[r]) :
              /\ Pos(started[r][i - 1]) < Pos(started[r][i])
              /\ started[r][i - 1] \in completed[r]
        /\ "slope" \in Range(started[r]) => "reproject" \in completed[r]

\* C10: reading a dataset without features fails the extent stage and no request
\* is sent; a dataset with a non-degenerate feature gives minX<maxX and minY<maxY.
C10_ExtentExtraction ==
    \A r \in Runs :
        gdf[r] # NoData =>
            /\ gdf[r].empty => (failed[r] = "extent" /\ requests[r] = 0)
            /\ gdf[r].nondegenerate =>
                  (Less(extent[r][1], extent[r][3]) /\ Less(extent[r][2], extent[r][4]))

\* ============================================================ raster stages
\* numpy int16 arithmetic wraps modulo 2^16; float32 is exact on these values
Wrap16(x) == ((x + 32768) % 65536) - 32768
Cast(dtype, x) == IF dtype = "int16" THEN Wrap16(x) ELSE x

\* scipy.ndimage mode='reflect' (d c b a | a b c d | d c b a), one cell beyond
Reflect(i, n) == IF i < 1 THEN 1 ELSE IF i > n THEN n ELSE i

\* the neighbour of cell c at offset o along axis (0: rows, 1: columns)
Shift(g, c, axis, o) ==
    IF axis = 0 THEN << Reflect(c[1] + o, g.h), c[2] >>
                ELSE << c[1], Reflect(c[2] + o, g.w) >>

\* the derivative weights with a positive centre weight
sobel_derivative_biased == << -1, 1, 1 >>

\* scipy.ndimage.sobel: the derivative weights, and the smoothing weights
sobel_derivative == << -1, 0, 1 >>
sobel_smoothing  == << 1, 2, 1 >>

\* scipy.ndimage.correlate1d of band b of grid g along axis, in g's dtype
correlate1d(g, b, weights, axis) ==
    [ c \in Cells(g) |->
        Cast(g.dtype, weights[1] * b[Shift(g, c, axis, -1)]
                      + weights[2] * b[c]
                      + weights[3] * b[Shift(g, c, axis, 1)]) ]

\* scipy.ndimage.sobel(input, axis): derivative along axis, smoothing along the other
sobel(g, axis) ==
    correlate1d(g, correlate1d(g, g.band, sobel_derivative, axis), sobel_smoothing, 1 - axis)

\* raster_slope.py calculate_slope lines 58-72: sx ** 2 + sy ** 2 in the dtype of
\* the DEM, its square root as float32, in the profile of the source
calculate_slope(g) ==
    LET sx == sobel(g, 0)
        sy == sobel(g, 1)
    IN  [ h |-> g.h, w |-> g.w, dtype |-> "float32", nodata |-> g.nodata, unit |-> "sqrt",
          band |-> [ c \in Cells(g) |->
                       Cast(g.dtype, Cast(g.dtype, sx[c] * sx[c])
                                     + Cast(g.dtype, sy[c] * sy[c])) ] ]

\* raster_to_shapefile line 86: data != src.nodata, per cell
Mask(g, c) ==
    IF g.nodata = NoNodata THEN TRUE
    ELSE IF g.unit = "sqrt"
         THEN ~(g.nodata >= 0 /\ g.band[c] = g.nodata * g.nodata)
         ELSE g.band[c] # g.nodata

\* rasterio.features.shapes, connectivity=4 (its default): the cells a scan in
\* raster order compares a cell with, the one to the left and the one above
ScanNeighbours(g, c) ==
    { n \in { << c[1], c[2] - 1 >>, << c[1] - 1, c[2] >> } : n \in Cells(g) }

CellAt(g, k) == << ((k - 1) \div g.w) + 1, ((k - 1) % g.w) + 1 >>
IndexOf(g, c) == (c[1] - 1) * g.w + c[2]

\* The region ids after the scan has passed cells k..h*w, ids being the ids of
\* the cells before k in raster order: a masked cell gets 0, a cell that
\* continues no region gets k, a cell that continues regions gets the least of
\* their ids, to which the regions it joins are renumbered.
RECURSIVE Scan(_, _, _)
Scan(g, k, ids) ==
    IF k > g.h * g.w THEN ids
    ELSE LET c    == CellAt(g, k)
             same == { ids[IndexOf(g, n)] : n \in { m \in ScanNeighbours(g, c) :
                                                      Mask(g, m) /\ g.band[m] = g.band[c] } }
             id   == IF ~Mask(g, c) THEN 0
                     ELSE IF same = {} THEN k
                     ELSE Min(same)
         IN  Scan(g, k + 1,
                  Append([ i \in 1..Len(ids) |-> IF ids[i] \in same THEN id ELSE ids[i] ], id))

RECURSIVE Sorted(_)
Sorted(S) == IF S = {} THEN << >> ELSE << Min(S) >> \o Sorted(S \ {Min(S)})

\* rasterio.features.shapes (line 87): one (geometry, value) pair per region, the
\* geometry a GeoJSON-like mapping
shapes(g) ==
    LET ids   == Scan(g, 1, << >>)
        order == Sorted({ ids[k] : k \in 1..Len(ids) } \ {0})
    IN  [ i \in 1..Len(order) |->
            [ geom  |-> [ format |-> "geojson",
                          cells  |-> { c \in Cells(g) : ids[IndexOf(g, c)] = order[i] } ],
              value |-> g.band[CellAt(g, order[i])] ] ]

\* ogr.CreateGeometryFromWkb (line 103) takes WKB bytes, and raises TypeError
\* for any other argument
CreateGeometryFromWkb(geom) == geom.format = "wkb"

\* raster_to_shapefile lines 101-106: the features added to the layer, up to
\* the first geometry that line 103 raises for
raster_to_shapefile(g) ==
    LET results == shapes(g)
        bad     == { i \in 1..Len(results) : ~CreateGeometryFromWkb(results[i].geom) }
        n       == IF bad = {} THEN Len(results) ELSE Min(bad) - 1
    IN  [ features |-> [ i \in 1..n |-> [ slope_value |-> results[i].value,
                                          cells       |-> results[i].geom.cells ] ],
          raised   |-> bad # {} ]

\* ------------------------------------------------------- the input grids
Dtypes       == { "int16", "float32" }
NodataValues == { NoNodata, 0 }

\* a grid whose value grows by delta per column ("col") or per row ("row")
Ramp(h, w, dtype, nodata, base, delta, dir) ==
    [ h |-> h, w |-> w, dtype |-> dtype, nodata |-> nodata, unit |-> "plain",
      band |-> [ c \in (1..h) \X (1..w) |->
                   base + delta * ((IF dir = "col" THEN c[2] ELSE c[1]) - 1) ] ]

RampGrids ==
    { Ramp(h, w, t, n, b, d, dir) :
        h \in 1..MaxSide, w \in 1..MaxSide, t \in Dtypes, n \in {NoNodata},
        b \in 0..MaxBase, d \in (-MaxDelta)..MaxDelta, dir \in {"col", "row"} }

Shapes == { hw \in (1..MaxCells) \X (1..MaxCells) : hw[1] * hw[2] <= MaxCells }

FreeGrids(dtypes, nodatas, values) ==
    UNION { { [ h |-> hw[1], w |-> hw[2], dtype |-> t, nodata |-> n, unit |-> "plain",
                band |-> b ] :
                t \in dtypes, n \in nodatas,
                b \in [ (1..hw[1]) \X (1..hw[2]) -> values ] } : hw \in Shapes }

\* DEMs with nodata cells, and rasters of up to two values with or without nodata
DemGrids    == RampGrids \cup FreeGrids(Dtypes, {0}, {0, 1})
SlopeGrids  == FreeGrids({"float32"}, NodataValues, {0, 1, 2})

\* A DEM is handed to calculate_slope, or a raster to raster_to_shapefile.
InitRaster ==
    /\ \/ /\ rpc = "slope"
          /\ dem \in DemGrids
          /\ slope = NoGrid
       \/ /\ rpc = "vectorize"
          /\ dem = NoGrid
          /\ slope \in SlopeGrids
    /\ features = << >>
    /\ PipelineOff /\ TxOff /\ CountyOff /\ SearchOff /\ ImportOff /\ LaunchOff

SlopeStage ==
    /\ rpc = "slope"
    /\ slope' = calculate_slope(dem)
    /\ rpc' = "vectorize"
    /\ UNCHANGED << dem, features >>
    /\ UNCHANGED rasterOutside

VectorizeStage ==
    /\ rpc = "vectorize"
    /\ features' = raster_to_shapefile(slope).features
    /\ rpc' = IF raster_to_shapefile(slope).raised THEN "failed" ELSE "done"
    /\ UNCHANGED << dem, slope >>
    /\ UNCHANGED rasterOutside

NextRaster == SlopeStage \/ VectorizeStage

SpecRaster == InitRaster /\ [][NextRaster]_rasterVars

\* ----------------------------------------------------- raster stage claims
SlopeDone == rpc \in {"vectorize", "done", "failed"} /\ dem # NoGrid
VectorizeDone == rpc \in {"done", "failed"}
Interior(g) == { c \in Cells(g) : c[1] > 1 /\ c[1] < g.h /\ c[2] > 1 /\ c[2] < g.w }
IsNodata(g, c) == g.nodata # NoNodata /\ g.band[c] = g.nodata

\* the value of g grows by d from each column to the next and is constant down a column
ColumnRamp(g, d) == \A c \in Cells(g) : g.band[c] = g.band[<< 1, 1 >>] + d * (c[2] - 1)
Deltas == (-MaxDelta)..MaxDelta

\* C11: a cell of the DEM that equals the source's nodata value is nodata in
\* the slope raster (the claim as stated; calculate_slope never reads nodata)
C11_NodataPropagates ==
    SlopeDone => \A c \in Cells(dem) : IsNodata(dem, c) => ~Mask(slope, c)

\* the cells that are linked to a cell of S through 4-adjacent unmasked cells of one value
Adjacent4(a, b) ==
    \/ a[1] = b[1] /\ (a[2] = b[2] + 1 \/ b[2] = a[2] + 1)
    \/ a[2] = b[2] /\ (a[1] = b[1] + 1 \/ b[1] = a[1] + 1)

RECURSIVE Grow(_, _)
Grow(g, S) ==
    LET T == S \cup { c \in Cells(g) :
                        /\ Mask(g, c)
                        /\ \E s \in S : Adjacent4(c, s) /\ g.band[c] = g.band[s] }
    IN  IF T = S THEN S ELSE Grow(g, T)

Regions(g) == { Grow(g, {c}) : c \in { m \in Cells(g) : Mask(g, m) } }

\* C12: the vectorizer emits one feature per maximal 4-connected region of
\* non-nodata cells of one value, none for nodata cells, each with the value of
\* its region as slope_value (the claim as stated)
C12_OneFeaturePerRegion ==
    VectorizeDone =>
        /\ Len(features) = Cardinality(Regions(slope))
        /\ { features[i].cells : i \in 1..Len(features) } = Regions(slope)
        /\ \A i \in 1..Len(features) :
             \A c \in features[i].cells :
                Mask(slope, c) /\ features[i].slope_value = slope.band[c]

\* C13: a 4x4 ramp in one direction without nodata yields exactly one polygon,
\* whose slope_value is the Sobel magnitude of the ramp, 8 * |d| (the claim as stated)
C13_RampOnePolygon ==
    \A d \in Deltas \ {0} :
        (VectorizeDone /\ dem # NoGrid /\ dem.h = 4 /\ dem.w = 4 /\ ColumnRamp(dem, d)
            /\ \A c \in Cells(dem) : ~IsNodata(dem, c))
        => /\ Len(features) = 1
           /\ features[1].slope_value = (8 * d) * (8 * d)

IsConstant(g) == \A c \in Cells(g) : g.band[c] = g.band[<< 1, 1 >>]

\* C14: the slope raster has the width and height of the DEM, and a constant
\* DEM has slope 0 at every non-edge cell
C14_ConstantGridFlat ==
    SlopeDone =>
        /\ slope.h = dem.h /\ slope.w = dem.w
        /\ DOMAIN slope.band = Cells(dem)
        /\ IsConstant(dem) => \A c \in Interior(dem) : slope.band[c] = 0

C14_Witness ==
    /\ SlopeDone
    /\ IsConstant(dem) /\ dem.band[<< 1, 1 >>] # 0
    /\ Interior(dem) # {}
    /\ \A c \in Interior(dem) : slope.band[c] = 0

\* C15: on a ramp of d per column every interior cell has the same slope, the
\* Sobel constant 8 * |d| (the claim as stated)
C15_RampInterior ==
    \A d \in Deltas :
        (SlopeDone /\ ColumnRamp(dem, d))
        => \A c \in Interior(dem) : slope.band[c] = (8 * d) * (8 * d)

\* ------------------------------------------------------ file name claims
\* the paths of run r, once its main has computed them (lines 43-52; 142-150)
HasPaths(r) == input_file[r] # NoInput /\ (script[r] = "raster_slope" \/ timestamp[r] # 0)
IntermediatePaths(r) ==
    IF script[r] = "raster_slope1" THEN Range(TempFiles(r))
    ELSE { dem_output_file(r), slope_output_file(r) }
RunPaths(r) ==
    IF script[r] = "raster_slope1" THEN TempFiles(r) \o << output_shapefile(r) >>
    ELSE << dem_output_file(r), slope_output_file(r), shapefile_output(r) >>

\* C16: the paths of one run are pairwise distinct, and of two runs on the same
\* input neither writes or deletes an intermediate path of the other (the
\* claim as stated)
C16_NoCollision ==
    /\ \A r \in Pair :
         HasPaths(r) =>
            \A i, j \in 1..Len(RunPaths(r)) : i # j => RunPaths(r)[i] # RunPaths(r)[j]
    /\ \A r1, r2 \in Pair :
         (r1 # r2 /\ HasPaths(r1) /\ HasPaths(r2) /\ input_file[r1] = input_file[r2])
         => IntermediatePaths(r1) \cap (written[r2] \cup removed[r2]) = {}

\* run r creates its shapefile in this step
Creates(r) == pc[r] = "create_layer" /\ pc'[r] # "create_layer"

\* C17: no lock stands between two runs and the final output path: a run that
\* got a data source writes the path whatever another run has put there since,
\* the file is then that run's, and it stays so until a run writes it again
C17_LastWriterWins ==
    [][ /\ \A r \in Pair : Creates(r) => /\ Exists(OutputPath(r))'
                                         /\ fs'[OutputPath(r)] = inv[r]
        /\ \A p \in DOMAIN fs :
             (p.ext = ".shp" /\ ~(\E r \in Pair : Creates(r) /\ OutputPath(r) = p))
             => p \in DOMAIN fs' /\ fs'[p] = fs[p] ]_vars

\* both runs have written the same output path; the file is the later writer's
C17_Witness ==
    /\ input_file[1] = input_file[2]
    /\ OutputPath(1) = OutputPath(2)
    /\ OutputPath(1) \in written[1] \cap written[2]
    /\ inv[1] < inv[2]
    /\ fs[OutputPath(1)] = inv[1]

\* ===================================================== the analysis window
\* __init__ lines 22-38: with a path on the command line the start is
\* scheduled (line 37); without one browse_file asks for it (line 39), and the
\* user may close the dialog.  Both buttons are created enabled and the Cancel
\* button disabled (setup_ui).
InitTx ==
    /\ \/ tx_input_file = "parcels.gpkg" /\ after_start = TRUE
       \/ tx_input_file \in {"", "parcels.gpkg"} /\ after_start = FALSE
    /\ start_button = "normal"
    /\ cancel_button = "disabled"
    /\ cancel_requested = FALSE
    /\ script_thread = 0
    /\ wpc = [t \in Threads |-> "none"]
    /\ result = [t \in Threads |-> "pending"]
    /\ cancelled = [t \in Threads |-> FALSE]
    /\ wrote = [t \in Threads |-> {}]
    /\ callbacks = << >>
    /\ quit = FALSE
    /\ PipelineOff /\ RasterOff /\ CountyOff /\ SearchOff /\ ImportOff /\ LaunchOff

\* Thread.is_alive() of worker t
Running(t) == wpc[t] \notin {"none", "dead"}

\* start_processing lines 102-115
start_processing ==
    IF tx_input_file = ""
    THEN UNCHANGED << start_button, cancel_button, cancel_requested, script_thread, wpc >>
    ELSE /\ script_thread < MaxThreads
         /\ start_button' = "disabled"
         /\ cancel_button' = "normal"
         /\ cancel_requested' = FALSE
         /\ script_thread' = script_thread + 1
         /\ wpc' = [wpc EXCEPT ![script_thread + 1] = "read"]

\* the user presses Start Processing (command=self.start_processing, line 76)
ClickStart ==
    /\ ~quit
    /\ start_button = "normal"
    /\ start_processing
    /\ UNCHANGED << tx_input_file, after_start, result, cancelled, wrote, callbacks, quit >>
    /\ UNCHANGED txOutside

\* the call scheduled at line 37 comes due
AfterStart ==
    /\ ~quit
    /\ after_start
    /\ after_start' = FALSE
    /\ start_processing
    /\ UNCHANGED << tx_input_file, result, cancelled, wrote, callbacks, quit >>
    /\ UNCHANGED txOutside

\* browse_file lines 92-100, from the Browse button
BrowseFile ==
    /\ ~quit
    /\ start_button = "normal"
    /\ tx_input_file' \in {"", "parcels.gpkg"}
    /\ UNCHANGED << start_button, cancel_button, cancel_requested, after_start, script_thread,
                    wpc, result, cancelled, wrote, callbacks, quit >>
    /\ UNCHANGED txOutside

\* cancel_processing lines 214-218, from the Cancel button
CancelProcessing ==
    /\ ~quit
    /\ cancel_button = "normal"
    /\ cancel_requested' = TRUE
    /\ cancel_button' = "disabled"
    /\ cancelled' = [t \in Threads |-> cancelled[t] \/ Running(t)]
    /\ UNCHANGED << tx_input_file, start_button, after_start, script_thread, wpc, result,
                    wrote, callbacks, quit >>
    /\ UNCHANGED txOutside

\* run_analysis lines 119-123: the worker hands its result, or its exception,
\* to the event loop and ends
Return(t, res) ==
    /\ result' = [result EXCEPT ![t] = res]
    /\ wpc' = [wpc EXCEPT ![t] = "dead"]
    /\ callbacks' = Append(callbacks,
                           [ fn |-> IF res = "error" THEN "handle_error"
                                    ELSE "handle_analysis_result",
                             thread |-> t ])

\* process_transmission_lines lines 128-174: the reads and the join
ReadAndJoin(t) ==
    /\ wpc[t] = "read"
    /\ \E o \in {"ok", "raise"} :
         IF o = "ok"
         THEN /\ wpc' = [wpc EXCEPT ![t] = "check"]
              /\ UNCHANGED << result, callbacks >>
         ELSE Return(t, "error")
    /\ UNCHANGED << tx_input_file, start_button, cancel_button, cancel_requested, after_start,
                    script_thread, cancelled, wrote, quit >>
    /\ UNCHANGED txOutside

\* lines 177-178: the one place where cancel_requested is read
CheckCancel(t) ==
    /\ wpc[t] = "check"
    /\ IF cancel_requested
       THEN Return(t, "none")
       ELSE /\ wpc' = [wpc EXCEPT ![t] = "subset"]
            /\ UNCHANGED << result, callbacks >>
    /\ UNCHANGED << tx_input_file, start_button, cancel_button, cancel_requested, after_start,
                    script_thread, cancelled, wrote, quit >>
    /\ UNCHANGED txOutside

\* lines 181-183: the parcels within one mile, (None, None) when there are none
Subset(t) ==
    /\ wpc[t] = "subset"
    /\ \E empty \in BOOLEAN :
         IF empty
         THEN Return(t, "none")
         ELSE /\ wpc' = [wpc EXCEPT ![t] = "to_file"]
              /\ UNCHANGED << result, callbacks >>
    /\ UNCHANGED << tx_input_file, start_button, cancel_button, cancel_requested, after_start,
                    script_thread, cancelled, wrote, quit >>
    /\ UNCHANGED txOutside

\* lines 186-190: subset.to_file
ToFile(t) ==
    /\ wpc[t] = "to_file"
    /\ \E o \in {"ok", "raise"} :
         IF o = "ok"
         THEN /\ wrote' = [wrote EXCEPT ![t] = @ \cup {"subset"}]
              /\ wpc' = [wpc EXCEPT ![t] = "to_csv"]
              /\ UNCHANGED << result, callbacks >>
         ELSE /\ Return(t, "error")
              /\ UNCHANGED wrote
    /\ UNCHANGED << tx_input_file, start_button, cancel_button, cancel_requested, after_start,
                    script_thread, cancelled, quit >>
    /\ UNCHANGED txOutside

\* lines 193-202: results_df.to_csv, and the return of both paths
ToCsv(t) ==
    /\ wpc[t] = "to_csv"
    /\ \E o \in {"ok", "raise"} :
         IF o = "ok"
         THEN /\ wrote' = [wrote EXCEPT ![t] = @ \cup {"csv"}]
              /\ Return(t, "files")
         ELSE /\ Return(t, "error")
              /\ UNCHANGED wrote
    /\ UNCHANGED << tx_input_file, start_button, cancel_button, cancel_requested, after_start,
                    script_thread, cancelled, quit >>
    /\ UNCHANGED txOutside

\* cleanup_and_exit lines 273-283, should_quit False
cleanup_and_exit ==
    /\ start_button' = "normal"
    /\ cancel_button' = "disabled"
    /\ UNCHANGED quit

\* handle_analysis_result lines 220-248
HandleAnalysisResult ==
    /\ ~quit
    /\ callbacks # << >>
    /\ Head(callbacks).fn = "handle_analysis_result"
    /\ callbacks' = Tail(callbacks)
    /\ IF result[Head(callbacks).thread] = "none"
       THEN cleanup_and_exit
       ELSE /\ quit' = TRUE
            /\ UNCHANGED << start_button, cancel_button >>
    /\ UNCHANGED << tx_input_file, cancel_requested, after_start, script_thread, wpc, result,
                    cancelled, wrote >>
    /\ UNCHANGED txOutside

\* handle_error lines 250-253
HandleError ==
    /\ ~quit
    /\ callbacks # << >>
    /\ Head(callbacks).fn = "handle_error"
    /\ callbacks' = Tail(callbacks)
    /\ cleanup_and_exit
    /\ UNCHANGED << tx_input_file, cancel_requested, after_start, script_thread, wpc, result,
                    cancelled, wrote >>
    /\ UNCHANGED txOutside

NextTx ==
    \/ ClickStart
    \/ AfterStart
    \/ BrowseFile
    \/ CancelProcessing
    \/ HandleAnalysisResult
    \/ HandleError
    \/ \E t \in Threads :
         \/ ReadAndJoin(t)
         \/ CheckCancel(t)
         \/ Subset(t)
         \/ ToFile(t)
         \/ ToCsv(t)

SpecTx == InitTx /\ [][NextTx]_txVars

\* ------------------------------------------------- analysis window claims
\* C18: once cancel_processing has been called while a worker runs, that
\* worker writes no file from then on and does not hand back file paths (the
\* claim, each part in its weakest reading)
C18_CancelStopsRun ==
    [][ \A t \in Threads :
          cancelled[t] => wrote'[t] = wrote[t] /\ result'[t] # "files" ]_txVars

\* C20: at most one worker thread is alive at any time (the claim as stated)
C20_OneWorker == Cardinality({ t \in Threads : Running(t) }) <= 1

\* ============================================================== county ids
Digits   == { "0", "1", "2", "3", "4", "5", "6", "7", "8", "9" }
isdigit(c) == c \in Digits

\* the characters the values are made of: two digits and one other character
Alphabet == { "0", "7", "-" }
Values   == UNION { [1..n -> Alphabet] : n \in 0..MaxLen }

\* str.zfill(width): zeros on the left up to width, nothing for a longer string
zfill(str, width) ==
    IF Len(str) >= width THEN str ELSE [ i \in 1..(width - Len(str)) |-> "0" ] \o str

\* import_to_crm.py format_county_id lines 174-181
format_county_id(v) == zfill(SelectSeq(v, isdigit), 5)

InitCounty ==
    /\ cpc = "call"
    /\ value \in Values
    /\ county_id = << >>
    /\ PipelineOff /\ RasterOff /\ TxOff /\ SearchOff /\ ImportOff /\ LaunchOff

FormatCountyId ==
    /\ cpc = "call"
    /\ county_id' = format_county_id(value)
    /\ cpc' = "returned"
    /\ UNCHANGED value
    /\ UNCHANGED countyOutside

NextCounty == FormatCountyId

SpecCounty == InitCounty /\ [][NextCounty]_countyVars

\* ---------------------------------------------------------- county claims
\* C19: format_county_id returns exactly five digit characters: the digits of
\* its input behind leading zeros, "00000" for an input without a digit (the
\* claim as stated)
C19_FiveDigits ==
    cpc = "returned" =>
        /\ Len(county_id) = 5
        /\ \A i \in 1..Len(county_id) : isdigit(county_id[i])
        /\ \E k \in 0..5 :
             /\ \A i \in 1..k : county_id[i] = "0"
             /\ SubSeq(county_id, k + 1, 5) = SelectSeq(value, isdigit)
        /\ SelectSeq(value, isdigit) = << >> => county_id = << "0", "0", "0", "0", "0" >>

\* ======================================================= the parcel search
\* The dialog is open (line 61); the server reports one count in all its answers.
InitSearch ==
    /\ qpc = "idle"
    /\ count \in 0..MaxCount
    /\ page = 0
    /\ all_results = 0
    /\ requested = << >>
    /\ last = "none"
    /\ shown = "nothing"
    /\ PipelineOff /\ RasterOff /\ TxOff /\ CountyOff /\ ImportOff /\ LaunchOff

\* run_action lines 64-74, and run_new_query lines 77-88
RunAction ==
    /\ qpc = "idle"
    /\ \E id \in {"", "37001"} :
         IF id = ""
         THEN /\ shown' = "warning"
              /\ qpc' = "done"
              /\ UNCHANGED << page, all_results >>
         ELSE /\ page' = 1
              /\ all_results' = 0
              /\ qpc' = "loop"
              /\ UNCHANGED shown
    /\ UNCHANGED << count, requested, last >>
    /\ UNCHANGED searchOutside

\* what one requests.get can bring: an error (no connection, a 4xx or 5xx
\* status, a body that is not JSON), an answer without 'results', or an answer
\* with a list of that many results
Answers ==
    { [kind |-> "error", n |-> 0], [kind |-> "missing", n |-> 0] }
        \cup { [kind |-> "results", n |-> k] : k \in 0..MaxPageSize }

\* the page requested again
SamePage(p) == p

\* line 98: params['page'] += 1
NextPage(p) == p + 1

\* run_new_query lines 91-103, one turn of the loop, and lines 114-116 for a
\* request that raises
RequestPage ==
    /\ qpc = "loop"
    /\ requested' = Append(requested, page)
    /\ \E a \in Answers :
         IF a.kind = "error"
         THEN /\ last' = "error"
              /\ shown' = "error"
              /\ qpc' = "done"
              /\ UNCHANGED << page, all_results >>
         ELSE IF a.kind = "missing" \/ a.n = 0
         THEN /\ last' = IF a.kind = "missing" THEN "missing" ELSE "empty"
              /\ qpc' = "after_loop"
              /\ UNCHANGED << page, all_results, shown >>
         ELSE /\ last' = "results"
              /\ all_results' = all_results + a.n
              /\ IF count > all_results + a.n
                 THEN /\ page' = NextPage(page)
                      /\ UNCHANGED qpc
                 ELSE /\ qpc' = "after_loop"
                      /\ UNCHANGED page
              /\ UNCHANGED shown
    /\ UNCHANGED count
    /\ UNCHANGED searchOutside

\* lines 105-113: the results are shown, unless a geometry does not parse or
\* no result has one; without results the "No Results" warning
Display ==
    /\ qpc = "after_loop"
    /\ IF all_results > 0
       THEN shown' \in {"results", "nothing"}
       ELSE shown' = "no_results"
    /\ qpc' = "done"
    /\ UNCHANGED << count, page, all_results, requested, last >>
    /\ UNCHANGED searchOutside

NextSearch == RunAction \/ RequestPage \/ Display

\* every request is answered or fails, and the code after it runs
SpecSearch == InitSearch /\ [][NextSearch]_searchVars /\ WF_searchVars(NextSearch)

\* -------------------------------------------------------- search claims
\* the pages 1, 2, 3, ... were requested in this order, none twice; the loop
\* goes on only after a page with results that left fewer than count, it has
\* stopped only at a page without results or with count reached, and after an
\* error it is over with nothing but the error shown
C21_Paging ==
    /\ requested = [ i \in 1..Len(requested) |-> i ]
    /\ (qpc = "loop" /\ requested # << >>) => last = "results" /\ all_results < count
    /\ (qpc \in {"after_loop", "done"} /\ requested # << >> /\ last # "error")
       => last \in {"missing", "empty"} \/ all_results >= count
    /\ last = "error" => qpc = "done" /\ shown = "error"

\* C21: the paging loop requests the pages in order and stops as described,
\* an error ends it with no results shown, and for a server with a fixed count
\* it comes to an end
C21_PagingTerminates == []C21_Paging /\ <>(qpc = "done")

\* three pages were needed to reach the count, and the results are shown
C21_Witness ==
    /\ qpc = "done"
    /\ Len(requested) >= 3
    /\ last = "results"
    /\ all_results >= count
    /\ shown = "results"

\* ========================================================= the CRM import
\* process_csv lines 288-295: the frame read from the CSV file is handed over.
InitImport ==
    /\ mpc = "verify"
    /\ df \in 0..MaxRows
    /\ columns \in SUBSET {"county_name", "state_abbr"}
    /\ group_title = << >>
    /\ group_id = "unset"
    /\ successful_imports = 0
    /\ failed_imports = 0
    /\ total_rows = 0
    /\ idx = 0
    /\ ended = "no"
    /\ PipelineOff /\ RasterOff /\ TxOff /\ CountyOff /\ SearchOff /\ LaunchOff

\* what requests.post gives verify_board_exists (lines 110-117): an exception,
\* or a response whose JSON body has no 'data', a null 'data', or a 'data'
\* with no 'boards', an empty list of them, or the board
BoardAnswers ==
    { [kind |-> "error", status_code |-> 0, data |-> "none"] } \cup
    { [kind |-> "response", status_code |-> s, data |-> d] :
        s \in {200, 401},
        d \in {"no_data", "null", "no_boards", "empty", "boards"} }

\* verify_board_exists line 121: "raised", or the truth of the value returned
verify_board_exists(a) ==
    IF a.kind = "error" THEN "raised"
    ELSE IF a.status_code # 200 THEN "false"
    ELSE IF a.data = "null" THEN "raised"
    ELSE IF a.data = "boards" THEN "true"
    ELSE "false"

\* import_to_monday lines 185-199
VerifyBoard ==
    /\ mpc = "verify"
    /\ \E a \in BoardAnswers :
         LET ok == verify_board_exists(a) IN
         /\ mpc' = IF ok = "true" THEN "group" ELSE "done"
         /\ ended' = CASE ok = "true"   -> "no"
                       [] ok = "false"  -> "no_board"
                       [] ok = "raised" -> "raised"
         /\ total_rows' = IF ok = "true" THEN df ELSE total_rows
    /\ UNCHANGED << df, columns, group_title, group_id, successful_imports,
                    failed_imports, idx >>
    /\ UNCHANGED importOutside

\* what requests.post gives create_group (lines 139-146)
GroupAnswers ==
    { [kind |-> "error", status_code |-> 0, data |-> "none"] } \cup
    { [kind |-> "response", status_code |-> s, data |-> d] :
        s \in {200, 500},
        d \in {"no_data", "null", "no_create_group", "null_create_group",
               "empty_id", "id"} }

\* create_group lines 148-152: "raised", or the value returned
create_group(a) ==
    IF a.kind = "error" THEN "raised"
    ELSE IF a.status_code # 200 THEN "None"
    ELSE CASE a.data = "no_data"           -> "None"
           [] a.data = "null"              -> "raised"
           [] a.data = "no_create_group"   -> "None"
           [] a.data = "null_create_group" -> "raised"
           [] a.data = "empty_id"          -> ""
           [] a.data = "id"                -> "new_group"

\* lines 204-205 and 126: the county and the state in the group's title
first_row_get(cols, column, default) == IF column \in cols THEN column ELSE default

\* import_to_monday lines 202-210; df.iloc[0] raises on a frame with no row
CreateGroup ==
    /\ mpc = "group"
    /\ IF df = 0
       THEN /\ mpc' = "done"
            /\ ended' = "raised"
            /\ UNCHANGED << group_title, group_id >>
       ELSE \E a \in GroupAnswers :
              LET id == create_group(a) IN
              /\ group_title' = << first_row_get(columns, "county_name", "Unknown"),
                                   first_row_get(columns, "state_abbr", "XX") >>
              /\ IF id = "raised"
                 THEN /\ mpc' = "done"
                      /\ ended' = "raised"
                      /\ UNCHANGED group_id
                 ELSE /\ group_id' = id
                      /\ mpc' = IF id \in {"None", ""} THEN "done" ELSE "loop"
                      /\ ended' = IF id \in {"None", ""} THEN "no_group" ELSE "no"
    /\ UNCHANGED << df, columns, successful_imports, failed_imports, total_rows, idx >>
    /\ UNCHANGED importOutside

\* the names import_to_monday has bound when line 216 runs (its parameters and
\* the targets of lines 192-212), and the names the module binds (lines 1-20)
Bound ==
    { "self", "df", "headers", "successful_imports", "failed_imports",
      "total_rows", "first_row", "group_id", "idx", "row",
      "os", "sys", "time", "json", "logging", "requests", "pd", "datetime",
      "API_KEY", "CSVProcessor", "process_csv" }

\* what a response to a row's request can be, for the test of lines 216-218
ItemResponses ==
    { [status_code |-> s, create_item |-> c] : s \in {200, 500}, c \in BOOLEAN }

\* lines 216-228, the try block of one row: the counter the row adds to
try_block(response) ==
    IF response.status_code = 200
    THEN IF response.create_item THEN "successful" ELSE "failed"
    ELSE "failed"

\* the outcomes of one row's try block: line 216 reads the name response
TryOutcomes ==
    IF "response" \in Bound
    THEN { try_block(r) : r \in ItemResponses }
    ELSE { "NameError" }

\* lines 230-233 without line 231
except_silent(n) == n

\* lines 230-233: failed_imports after the handler
except_handler(n) == n + 1

\* import_to_monday lines 212-233, one row of the loop
ImportRow ==
    /\ mpc = "loop"
    /\ idx < total_rows
    /\ \E o \in TryOutcomes :
         /\ successful_imports' =
              IF o = "successful" THEN successful_imports + 1 ELSE successful_imports
         /\ failed_imports' =
              CASE o = "failed"     -> failed_imports + 1
                [] o = "NameError"  -> except_handler(failed_imports)
                [] o = "successful" -> failed_imports
    /\ idx' = idx + 1
    /\ UNCHANGED << mpc, df, columns, group_title, group_id, total_rows, ended >>
    /\ UNCHANGED importOutside

\* import_to_monday lines 235-260, after the last row
Complete ==
    /\ mpc = "loop"
    /\ idx = total_rows
    /\ mpc' = "done"
    /\ ended' = "completed"
    /\ UNCHANGED << df, columns, group_title, group_id, successful_imports,
                    failed_imports, total_rows, idx >>
    /\ UNCHANGED importOutside

NextImport == VerifyBoard \/ CreateGroup \/ ImportRow \/ Complete

SpecImport == InitImport /\ [][NextImport]_importVars

\* the counters account for the rows taken so far, for all of them at the end,
\* and for none when the board or the group is refused
C22_Accounting ==
    /\ successful_imports + failed_imports = idx
    /\ ended = "completed" => successful_imports + failed_imports = total_rows
    /\ ended \in {"no_board", "no_group"} => idx = 0

\* a row adds one to exactly one counter and leaves the loop running
C22_OneCounterPerRow ==
    idx' = idx + 1 =>
        /\ \/ successful_imports' = successful_imports + 1
              /\ failed_imports' = failed_imports
           \/ successful_imports' = successful_imports
              /\ failed_imports' = failed_imports + 1
        /\ mpc' = "loop"

\* C22: every row of the import loop adds one to exactly one of
\* successful_imports and failed_imports, a row that raises counting as failed
\* and the loop going on; the two counters sum to the rows taken so far and to
\* total_rows at completion; no row is taken when the board verification or
\* the group creation fails.
C22_EveryRowCounted == []C22_Accounting /\ [][C22_OneCounterPerRow]_importVars

C22_Witness ==
    /\ ended = "completed"
    /\ total_rows >= 2
    /\ idx = total_rows
    /\ failed_imports = total_rows

\* ============================================================ the launcher
\* main.py lines 29-42: the script of each process
processes ==
    [ name \in {"Parcel Search", "Transmission Line Proximity", "CRM Import"} |->
        CASE name = "Parcel Search"               -> "parcel_search.py"
          [] name = "Transmission Line Proximity" -> "tx_prox_analysis.py"
          [] name = "CRM Import"                  -> "import_to_crm.py" ]

\* main lines 109-118: the window is shown and the event loop runs
InitLaunch ==
    /\ lpc = "idle"
    /\ scripts \in SUBSET { processes[name] : name \in DOMAIN processes }
    /\ process_name = ""
    /\ hidden = FALSE
    /\ launches = 0
    /\ returncode = -1
    /\ caught = FALSE
    /\ message = "none"
    /\ exit_status = -1
    /\ PipelineOff /\ RasterOff /\ TxOff /\ CountyOff /\ SearchOff /\ ImportOff

\* line 49: a process button is clicked
Click ==
    /\ lpc = "idle"
    /\ \E name \in DOMAIN processes : process_name' = name
    /\ lpc' = "check"
    /\ UNCHANGED << scripts, hidden, launches, returncode, caught, message, exit_status >>
    /\ UNCHANGED launchOutside

\* lines 59-60 and 118: the Exit button closes the window, app.exec_() returns 0
CloseWindow ==
    /\ lpc = "idle"
    /\ lpc' = "exited"
    /\ exit_status' = 0
    /\ UNCHANGED << scripts, process_name, hidden, launches, returncode, caught, message >>
    /\ UNCHANGED launchOutside

\* launch_process lines 67-82, up to the message box or the subprocess
CheckScript ==
    /\ lpc = "check"
    /\ IF processes[process_name] \notin scripts
       THEN /\ message' = "not_found"
            /\ lpc' = "message"
            /\ UNCHANGED hidden
       ELSE /\ hidden' = (process_name = "Parcel Search")
            /\ lpc' = "run"
            /\ UNCHANGED message
    /\ UNCHANGED << scripts, process_name, launches, returncode, caught, exit_status >>
    /\ UNCHANGED launchOutside

\* line 84, the start of subprocess.run: the interpreter starts, or the start
\* raises and the handler of lines 101-103 shows its message
Run ==
    /\ lpc = "run"
    /\ \E spawned \in BOOLEAN :
         IF spawned
         THEN /\ launches' = launches + 1
              /\ lpc' = "child"
              /\ UNCHANGED << caught, message >>
         ELSE /\ caught' = TRUE
              /\ message' = "unexpected"
              /\ lpc' = "message"
              /\ UNCHANGED launches
    /\ UNCHANGED << scripts, process_name, hidden, returncode, exit_status >>
    /\ UNCHANGED launchOutside

\* lines 84-86, the end of subprocess.run: the script has ended with a return
\* code, and its output is decoded (text=True) or the decoding raises
ChildReturns ==
    /\ lpc = "child"
    /\ \E rc \in 0..MaxCode, decoded \in BOOLEAN :
         IF decoded
         THEN /\ returncode' = rc
              /\ lpc' = "returned"
              /\ UNCHANGED << caught, message >>
         ELSE /\ caught' = TRUE
              /\ message' = "unexpected"
              /\ lpc' = "message"
              /\ UNCHANGED returncode
    /\ UNCHANGED << scripts, process_name, hidden, launches, exit_status >>
    /\ UNCHANGED launchOutside

\* line 88 with every return code taken for success
returncode_ignored(rc) == FALSE

\* line 88: result.returncode != 0
returncode_nonzero(rc) == rc # 0

\* lines 88-99: the error message, or the exit with status 0
CheckResult ==
    /\ lpc = "returned"
    /\ IF returncode_nonzero(returncode)
       THEN /\ message' = "error"
            /\ lpc' = "message"
            /\ UNCHANGED exit_status
       ELSE /\ exit_status' = 0
            /\ lpc' = "exited"
            /\ UNCHANGED message
    /\ UNCHANGED << scripts, process_name, hidden, launches, returncode, caught >>
    /\ UNCHANGED launchOutside

\* lines 74-76, 91-93 and 104-106: the message box is dismissed, os._exit(1)
Dismiss ==
    /\ lpc = "message"
    /\ exit_status' = 1
    /\ lpc' = "exited"
    /\ UNCHANGED << scripts, process_name, hidden, launches, returncode, caught, message >>
    /\ UNCHANGED launchOutside

\* the steps of one call of launch_process
LaunchProcess == CheckScript \/ Run \/ ChildReturns \/ CheckResult \/ Dismiss

NextLaunch == Click \/ CloseWindow \/ LaunchProcess

\* A call goes on while the script it started ends and its message box is
\* dismissed; a click may never come.
SpecLaunch ==
    InitLaunch /\ [][NextLaunch]_launchVars /\ WF_launchVars(LaunchProcess)

\* at most one subprocess; after a call has ended, the status by its cause
C23_Exit ==
    /\ launches <= 1
    /\ (process_name # "" /\ lpc # "exited") => exit_status = -1
    /\ (process_name # "" /\ lpc = "exited") =>
         /\ exit_status \in {0, 1}
         /\ exit_status = 0 <=>
              (processes[process_name] \in scripts /\ returncode = 0)
         /\ processes[process_name] \notin scripts =>
              (exit_status = 1 /\ launches = 0)
         /\ returncode > 0 => exit_status = 1
         /\ caught => exit_status = 1

\* C23: every call of launch_process ends the application after at most one
\* subprocess launch, with status 0 exactly when the script file exists and
\* the subprocess returned code 0, and with status 1 when the script is
\* missing (no subprocess is started), the subprocess returned non-zero, or an
\* exception occurred.
C23_LaunchEndsApplication == []C23_Exit /\ ((lpc = "check") ~> (lpc = "exited"))

C23_Witness ==
    /\ lpc = "exited"
    /\ process_name = "Parcel Search"
    /\ hidden
    /\ launches = 1
    /\ returncode = 0
    /\ exit_status = 0

====
